---- MODULE Spec2Model ----
(***************************************************************************)
(* A model of tts.js (mtskf/ttsjs): the token-aware text splitter          *)
(* (TextProcessor.splitByTokens), the bounded-concurrency synthesis        *)
(* pipeline with per-segment retry (TTSProcessor.processFile, p-limit,     *)
(* AudioSynthesizer), the merge / cleanup protocol (AudioMerger,           *)
(* FileCleanup), the resolution of the settings (main, TTSConfig) and the  *)
(* path validation (FileValidator.validatePath).                           *)
(*                                                                         *)
(* A text is a sequence of one-character strings.  A file system is the    *)
(* set of paths that exist.                                                *)
(*                                                                         *)
(* Scheduling is that of the Node.js event loop.  The settling of a remote *)
(* call, the firing of a backoff timer and the exit of ffmpeg are events,  *)
(* each delivered in an event-loop turn of its own.  The code that resumes *)
(* after an `await` of an already settled promise is a continuation: the   *)
(* steps on either side of such an await are separate actions, and every   *)
(* pending continuation runs before the next event is taken.               *)
(***************************************************************************)
EXTENDS Integers, Sequences, FiniteSets, TLC

VARIABLES
    cliArgs,       \* the options the user typed on the command line
    fileConfig,    \* the parsed tts-config.json ({} when there is none)
    model,         \* config.model
    voice,         \* config.voice
    speed,         \* config.speed
    filePath,      \* the <file> argument, as typed
    fileKind,      \* what is at the resolved path: nothing, a directory, a file
    inputName,     \* the input file's name without its extension
    validation,    \* the message of validatePath's result ("none" before the call)
    text,          \* content handed to splitByTokens (readFile's content.trim())
    tokenLimit,    \* config.tokenLimit
    textParts,     \* result of splitByTokens
    parallelLimit, \* config.parallelLimit
    maxRetries,    \* config.maxRetries
    phase,         \* position of processFile / mergeFiles
    pc,            \* position of each segment task
    calls,         \* number of _createAudio calls made for each segment
    waits,         \* backoff delays (ms) slept for each segment, in order
    lastError,     \* synthesizeWithRetry's lastError: number of the failed call, 0 = null
    active,        \* segments counted in p-limit's activeCount
    admitted,      \* order in which p-limit started the tasks
    outputParts,   \* the index-addressed array; NoPath = empty slot
    barCount,      \* number of bar.increment() calls
    files,         \* paths that exist on disk (a file may be partly written)
    manifest,      \* content written to concat_list.txt, line by line
    mergeError,    \* what mergeFiles' try block threw ("none" if nothing)
    undeletable,   \* paths whose fs.unlinkSync threw (and was swallowed)
    toolRuns,      \* number of times ffmpeg was spawned
    stored,        \* segment indices in the order their slots were stored
    writeLog,      \* the writes of part files and of array slots, in order
    audio,         \* for each segment, the number of the call whose audio was returned (0 = none)
    reported       \* the error the catch block of processFile reports

vars == <<cliArgs, fileConfig, model, voice, speed, filePath, fileKind,
          inputName, validation, text, tokenLimit, textParts, parallelLimit, maxRetries, phase, pc,
          calls, waits, lastError, active, admitted, outputParts, barCount,
          files, manifest, mergeError, undeletable, toolRuns, stored, writeLog,
          audio, reported>>

inputVars == <<filePath, fileKind, inputName, validation>>
configVars == <<cliArgs, fileConfig, model, voice, speed, tokenLimit,
                parallelLimit, maxRetries, inputVars>>
taskVars == <<pc, calls, waits, lastError, active, admitted, outputParts,
              barCount, stored, writeLog, audio>>
mergeVars == <<manifest, mergeError, toolRuns>>

-----------------------------------------------------------------------------
(* Bounds of the model *)

MaxLen == 5          \* longest text given to splitByTokens on its own
MaxBudget == 3       \* largest token limit tried on those texts
MaxSegments == 3     \* most segments in a pipeline run
MaxParallel == 2     \* largest parallelLimit
MaxRetries == 3      \* largest maxRetries
MaxPathLen == 5      \* longest <file> argument given to validatePath

(* Program constants *)

RetryDelay == 2000   \* config.retryDelay
DefaultTokenLimit == 1600
DefaultMaxRetries == 3
DefaultParallel == 5
DefaultSpeed == 1

-----------------------------------------------------------------------------
(* Configuration: commander's option parsing and the TTSConfig             *)
(* constructor.  A JavaScript value is undefined, a string or a number.    *)

Undefined == [t |-> "undefined"]
Str(x) == [t |-> "string", s |-> x]
Num(x) == [t |-> "number", n |-> x]

\* ToBoolean: undefined, "" and 0 are falsy.
Truthy(v) ==
    CASE v.t = "undefined" -> FALSE
      [] v.t = "string" -> v.s # ""
      [] v.t = "number" -> v.n # 0

\* a || b
OrElse(a, b) == IF Truthy(a) THEN a ELSE b

\* The numeric strings the settings here are given as, with their values.
Literals == {<<"0", 0>>, <<"1", 1>>, <<"2", 2>>, <<"3", 3>>, <<"4", 4>>,
             <<"5", 5>>, <<"6", 6>>, <<"7", 7>>, <<"8", 8>>, <<"9", 9>>,
             <<"1.0", 1>>}

Numeral(k) == (CHOOSE p \in Literals : p[2] = k /\ p[1] # "1.0")[1]

\* parseInt(v) and parseFloat(v) on a number or on one of the strings above.
ParseInt(v) ==
    IF v.t = "number" THEN v.n ELSE (CHOOSE p \in Literals : p[1] = v.s)[2]
ParseFloat(v) ==
    IF v.t = "number" THEN v.n ELSE (CHOOSE p \in Literals : p[1] = v.s)[2]

\* The options commander declares in main(); each has a default value.
CliOptions == {"model", "voice", "parallel", "speed"}

CommanderDefaults ==
    [model |-> Str("gpt-4o-mini-tts"), voice |-> Str("alloy"),
     parallel |-> Str("5"), speed |-> Str("1.0")]

\* program.parse(process.argv): the options object handed to the action.
\* An option the user did not type holds its declared default; tokenLimit,
\* retries and format are not declared and are never set.
Options(typed) ==
    [o \in CliOptions \cup {"tokenLimit", "retries", "format"} |->
        IF o \in CliOptions
        THEN IF typed[o].t # "undefined" THEN typed[o] ELSE CommanderDefaults[o]
        ELSE Undefined]

\* new TTSConfig(cliOptions): the fields the || chains compute.
TTSConfig(cliOptions, file) ==
    [model |-> OrElse(OrElse(cliOptions.model, file.model),
                      Str("gpt-4o-mini-tts")).s,
     voice |-> OrElse(OrElse(cliOptions.voice, file.voice), Str("alloy")).s,
     tokenLimit |-> ParseInt(OrElse(OrElse(cliOptions.tokenLimit, file.tokenLimit),
                                    Num(DefaultTokenLimit))),
     maxRetries |-> ParseInt(OrElse(OrElse(cliOptions.retries, file.maxRetries),
                                    Num(DefaultMaxRetries))),
     parallelLimit |-> ParseInt(OrElse(OrElse(cliOptions.parallel, file.parallel),
                                       Num(DefaultParallel))),
     speed |-> ParseFloat(OrElse(OrElse(cliOptions.speed, file.speed),
                                 Num(DefaultSpeed)))]

\* The keys of tts-config.json that TTSConfig reads (responseFormat aside).
FileKeys == {"model", "voice", "tokenLimit", "maxRetries", "parallel", "speed"}

NoFile == [k \in FileKeys |-> Undefined]
NoArgs == [o \in CliOptions |-> Undefined]

-----------------------------------------------------------------------------
(* FileValidator.validatePath.  A path string is a sequence of characters. *)

PathAlphabet == {"/", ".", "h", "x"}

HomeDir == <<"/", "h">>      \* process.env.HOME
Cwd == <<"/", "h">>          \* process.cwd()

\* s.split("/")
RECURSIVE SplitSlash(_)
SplitSlash(s) ==
    IF \A j \in 1..Len(s) : s[j] # "/"
    THEN << s >>
    ELSE LET j == CHOOSE c \in 1..Len(s) :
                      s[c] = "/" /\ \A d \in 1..(c - 1) : s[d] # "/"
         IN  << SubSeq(s, 1, j - 1) >> \o SplitSlash(SubSeq(s, j + 1, Len(s)))

\* The directory stack after the components: "" and "." stay in place,
\* ".." goes up (the root is its own parent).
RECURSIVE Walk(_, _)
Walk(stack, comps) ==
    IF comps = <<>> THEN stack
    ELSE LET c == Head(comps)
         IN  IF c = <<>> \/ c = <<".">>
             THEN Walk(stack, Tail(comps))
             ELSE IF c = <<".", ".">>
                  THEN Walk(IF stack = <<>> THEN stack
                            ELSE SubSeq(stack, 1, Len(stack) - 1), Tail(comps))
                  ELSE Walk(Append(stack, c), Tail(comps))

RECURSIVE JoinSlash(_)
JoinSlash(stack) ==
    IF stack = <<>> THEN <<>> ELSE <<"/">> \o Head(stack) \o JoinSlash(Tail(stack))

\* path.resolve(p) (POSIX): a relative path is taken from the working
\* directory; the result is absolute and normalized.  Symbolic links are
\* not followed.
Resolve(p) ==
    LET abs == IF p # <<>> /\ Head(p) = "/" THEN p ELSE Cwd \o <<"/">> \o p
        stack == Walk(<<>>, SplitSlash(abs))
    IN  IF stack = <<>> THEN <<"/">> ELSE JoinSlash(stack)

\* resolvedPath.startsWith(homeDir)
StartsWith(s, prefix) ==
    Len(s) >= Len(prefix) /\ SubSeq(s, 1, Len(prefix)) = prefix

\* The result of validatePath, by its message.
validatePath(p, kind) ==
    IF ~StartsWith(Resolve(p), HomeDir) THEN "File must be located under home directory"
    ELSE IF kind = "missing" THEN "File does not exist"
    ELSE IF kind = "directory" THEN "Specified path is not a file"
    ELSE IF kind = "unreadable" THEN "No read permission for the file"
    ELSE "File path is safe"

\* { valid: true, ... }
Valid(message) == message = "File path is safe"

-----------------------------------------------------------------------------
(* Text: characters, trimming, the sentence split, the tokenizer *)

\* The characters of the regular expression's class: the full-width stop
\* U+3002, full-width period U+FF0E, full-width exclamation mark U+FF01,
\* full-width question mark U+FF1F, and the newline.  The ASCII period is
\* not in the class.
Boundary == {"U+3002", "U+FF0E", "U+FF01", "U+FF1F", "\n"}

\* What String.prototype.trim() removes (the members the texts here use).
Whitespace == {" ", "\n"}

\* The characters texts are drawn from: two words, a space, a newline, a
\* full-width stop and an ASCII period.
Alphabet == {"a", "w", " ", "\n", "U+3002", "."}

RECURSIVE TrimStart(_)
TrimStart(s) ==
    IF s # <<>> /\ Head(s) \in Whitespace THEN TrimStart(Tail(s)) ELSE s

RECURSIVE TrimEnd(_)
TrimEnd(s) ==
    IF s # <<>> /\ s[Len(s)] \in Whitespace
    THEN TrimEnd(SubSeq(s, 1, Len(s) - 1))
    ELSE s

Trim(s) == TrimEnd(TrimStart(s))

\* text.split(/(?<=[...])/) with the class above: cut after every boundary
\* character that is not the last one; the empty string yields one empty
\* piece.
RECURSIVE SplitFrom(_, _)
SplitFrom(s, start) ==
    LET cuts == {j \in start..(Len(s) - 1) : s[j] \in Boundary}
    IN  IF cuts = {}
        THEN << SubSeq(s, start, Len(s)) >>
        ELSE LET j == CHOOSE c \in cuts : \A d \in cuts : c <= d
             IN  << SubSeq(s, start, j) >> \o SplitFrom(s, j + 1)

SplitSentences(s) == SplitFrom(s, 1)

\* A word the vocabulary holds only with its leading space: " w" is one
\* token, the bare "w" is encoded in two pieces.
SpacedOnlyWords == {"w"}

\* encoder.encode(s).length for a byte-pair encoding in which a space joins
\* the word that follows it (" a" and " w" are one token each), a bare
\* word of SpacedOnlyWords takes two tokens and every other character is a
\* token of its own.  As with cl100k_base, removing the space before a
\* word can raise the count.
RECURSIVE Tokens(_)
Tokens(s) ==
    IF s = <<>> THEN 0
    ELSE IF Len(s) >= 2 /\ s[1] = " " /\ s[2] \notin Whitespace
         THEN 1 + Tokens(Tail(Tail(s)))
         ELSE IF s[1] \in SpacedOnlyWords
              THEN 2 + Tokens(Tail(s))
              ELSE 1 + Tokens(Tail(s))

-----------------------------------------------------------------------------
(* TextProcessor.splitByTokens *)

\* tokens.length > this.tokenLimit
OverLimitEager(tokens, limit) == tokens >= limit
OverLimit(tokens, limit) == tokens > limit

\* if (current.trim()) parts.push(current.trim())
Flush(parts, current) ==
    IF Trim(current) # <<>> THEN Append(parts, Trim(current)) ELSE parts

\* The push after the loop.
FinalFlushForgotten(parts, current) == parts
FinalFlush(parts, current) == Flush(parts, current)

RECURSIVE SplitLoop(_, _, _, _, _)
SplitLoop(sentences, k, current, parts, limit) ==
    IF k > Len(sentences)
    THEN FinalFlush(parts, current)
    ELSE LET sentence == sentences[k]
             testText == current \o sentence
         IN  IF Trim(sentence) = <<>>
             THEN SplitLoop(sentences, k + 1, current, parts, limit)
             ELSE IF OverLimit(Tokens(testText), limit)
                  THEN SplitLoop(sentences, k + 1, sentence,
                                 Flush(parts, current), limit)
                  ELSE SplitLoop(sentences, k + 1, testText, parts, limit)

splitByTokensDroppingOversized(t, limit) ==
    SelectSeq(SplitLoop(SplitSentences(t), 1, <<>>, <<>>, limit),
              LAMBDA seg : Tokens(seg) <= limit)
splitByTokens(t, limit) == SplitLoop(SplitSentences(t), 1, <<>>, <<>>, limit)

-----------------------------------------------------------------------------
(* Paths.  A path is <<stem, suffix, number, extension>> in the input's    *)
(* directory: path.join(outputDir, ...) of the source.                     *)

\* path.basename(inputPath, path.extname(inputPath))
Prefix == inputName
ResponseFormat == "mp3"      \* config.responseFormat

InputPath == <<Prefix, "", 0, "txt">>

\* `${prefix}_part${index + 1}.${responseFormat}`; i is index + 1.
PartPathWithoutIndex(i) == <<Prefix, "_part", 1, ResponseFormat>>
PartPath(i) == <<Prefix, "_part", i, ResponseFormat>>

\* `${prefix}_merged.${responseFormat}`
MergedFile == <<Prefix, "_merged", 0, ResponseFormat>>

\* path.join(outputDir, "concat_list.txt")
ListFile == <<"concat_list", "", 0, "txt">>

\* An empty slot of new Array(n): undefined.
NoPath == <<>>

Segs == 1..Len(textParts)

Range(f) == {f[i] : i \in DOMAIN f}

-----------------------------------------------------------------------------
(* FileCleanup.removeFiles: every path that exists is unlinked; an unlink  *)
(* that throws is swallowed and the file stays.  `stuck` are the paths     *)
(* whose unlink throws.                                                    *)

removeFilesStopsAtFailure(fs, targets, stuck) ==
    IF stuck = {} THEN fs \ targets ELSE fs
removeFiles(fs, targets, stuck) == fs \ (targets \ stuck)

-----------------------------------------------------------------------------
(* AudioSynthesizer.synthesizeWithRetry.  `attempt` is the loop counter    *)
(* (0-based); call number attempt + 1 is in flight or has just failed.     *)

\* attempt < this.config.maxRetries (the loop condition)
LoopRuns(attempt) == attempt < maxRetries

\* attempt < this.config.maxRetries - 1 (wait, then try again)
WillRetry(attempt) == attempt < maxRetries - 1

\* this.config.retryDelay * (attempt + 1)
BackoffDelay(attempt) == RetryDelay * (attempt + 1)

\* What a call can fail with: no connection, an API error status, a
\* rejected request.
ErrorKinds == {"network", "rate limit", "bad request"}

\* catch (e): the catch block has no condition on the error.
RetryableUnlessBadRequest(kind) == kind # "bad request"
Retryable(kind) == TRUE

\* lastError = e
RecordError(prev, e) == e

-----------------------------------------------------------------------------
(* p-limit (pLimit(this.config.parallelLimit)): a task is started when     *)
(* activeCount < concurrency; the queue is first-in first-out, and the     *)
(* tasks were enqueued in index order.                                     *)

Queued == {i \in Segs : pc[i] = "queued"}

QueueHead == CHOOSE i \in Queued : \A j \in Queued : i <= j

HasFreeSlotOffByOne == Cardinality(active) <= parallelLimit
HasFreeSlot == Cardinality(active) < parallelLimit

\* p-limit's next() runs for a task as soon as that task has settled,
\* whatever the other running tasks are doing.
ReleaseReadyAtBarrier(i) ==
    i \in active /\ \A j \in active : pc[j] \in {"done", "failed"}
ReleaseReady(i) == i \in active /\ pc[i] \in {"done", "failed"}

\* The position a task reaches when it is started: it runs synchronously
\* into synthesizeWithRetry, which either issues call 1 or, when the loop
\* body never runs, throws lastError (null).
StartPcSkippingCall == "synthesized"
StartPc == IF LoopRuns(0) THEN "calling" ELSE "failed"
StartCalls == IF LoopRuns(0) THEN 1 ELSE 0

\* bar.increment()
BarIncrementTwice(n) == n + 2
BarIncrement(n) == n + 1

\* outputParts[index] = partPath
SlotByCompletion(i, done) == Len(done) + 1
Slot(i, done) == i

-----------------------------------------------------------------------------
(* Initial states *)

RECURSIVE Repeat(_, _)
Repeat(unit, n) == IF n = 0 THEN <<>> ELSE unit \o Repeat(unit, n - 1)

\* Texts of 1..MaxSegments sentences "a<stop>" of two tokens each.
PipelineTexts == {Repeat(<<"a", "U+3002">>, n) : n \in 1..MaxSegments}

RECURSIVE SeqsUpTo(_)
SeqsUpTo(n) ==
    IF n = 0 THEN {<<>>}
    ELSE LET shorter == SeqsUpTo(n - 1)
         IN  shorter \cup {Append(s, c) : s \in {t \in shorter : Len(t) = n - 1},
                                          c \in Alphabet}

\* What FileValidator.readFile hands on: content.trim(), and not empty.
ValidContents == {t \in SeqsUpTo(MaxLen) : t # <<>> /\ Trim(t) = t}

\* An ASCII text of three sentences, "A. B. C.".
PeriodText == <<"A", ".", " ", "B", ".", " ", "C", ".">>

\* A text of three sentences, the second of which begins with a space and
\* a word of SpacedOnlyWords.
SpacedWordText == <<"a", "U+3002", " ", "w", "U+3002", "a">>

\* config.maxRetries: parseInt of a CLI or file value; "0" and negative
\* numbers pass the || chain.
RetryValues == {-1, 0} \cup (1..MaxRetries)

\* The values of maxRetries tried on whole runs: the two without a call,
\* a single call, and the default.
RunRetryValues == {-1, 0, 1, DefaultMaxRetries}

\* Nothing has been caught yet.
NoError == [type |-> "none"]

\* The working directory before the run: the input file, unless there is
\* no file at the path given.
FilesAtStart == IF fileKind = "missing" THEN {} ELSE {InputPath}

NoTasks ==
    /\ textParts = <<>>
    /\ pc = <<>>
    /\ calls = <<>>
    /\ waits = <<>>
    /\ lastError = <<>>
    /\ active = {}
    /\ admitted = <<>>
    /\ outputParts = <<>>
    /\ barCount = 0
    /\ stored = <<>>
    /\ writeLog = <<>>
    /\ audio = <<>>
    /\ reported = NoError
    /\ files = FilesAtStart
    /\ manifest = <<>>
    /\ mergeError = "none"
    /\ undeletable = {}
    /\ toolRuns = 0

IdleTasks == phase = "start" /\ NoTasks

\* The input file of a run: a readable file in the home directory.
UserFile == <<"/", "h", "/", "x">>

\* The state after validatePath has accepted the input file.
AcceptedFile ==
    /\ filePath = UserFile
    /\ fileKind = "file"
    /\ validation = validatePath(filePath, fileKind)

\* The input file is doc.txt.
ValidatedInput == AcceptedFile /\ inputName = "doc"

\* Names of input files (all with the extension txt).
InputNames == {"doc", "concat_list"}

\* The state new TTSProcessor(options) leaves: the fields of TTSConfig for
\* the typed options and the configuration file.
Constructed ==
    LET c == TTSConfig(Options(cliArgs), fileConfig)
    IN  /\ model = c.model
        /\ voice = c.voice
        /\ speed = c.speed
        /\ tokenLimit = c.tokenLimit
        /\ parallelLimit = c.parallelLimit
        /\ maxRetries = c.maxRetries

\* A number as tts-config.json gives it so that TTSConfig keeps it: 0 has
\* to be the string "0", since the number 0 is falsy.
Kept(n) == IF n = 0 THEN Str("0") ELSE Num(n)

\* tts --parallel k file, with tokenLimit 2 and maxRetries r in the file.
Init ==
    /\ text \in PipelineTexts
    /\ \E k \in 1..MaxParallel :
          cliArgs = [NoArgs EXCEPT !.parallel = Str(Numeral(k))]
    /\ \E r \in RetryValues :
          fileConfig = [NoFile EXCEPT !.tokenLimit = Num(2), !.maxRetries = Kept(r)]
    /\ Constructed
    /\ ValidatedInput
    /\ IdleTasks

\* The same runs on an input file of any of the names above.
AnyNameInit ==
    /\ text \in PipelineTexts
    /\ \E k \in 1..MaxParallel :
          cliArgs = [NoArgs EXCEPT !.parallel = Str(Numeral(k))]
    /\ \E r \in RetryValues :
          fileConfig = [NoFile EXCEPT !.tokenLimit = Num(2), !.maxRetries = Kept(r)]
    /\ Constructed
    /\ AcceptedFile
    /\ inputName \in InputNames
    /\ IdleTasks

\* tts --parallel 1 file, with tokenLimit 0..MaxBudget and maxRetries 1 in
\* the file.
SplitInit ==
    /\ text \in ValidContents \cup {PeriodText, SpacedWordText}
    /\ cliArgs = [NoArgs EXCEPT !.parallel = Str("1")]
    /\ \E b \in 0..MaxBudget :
          fileConfig = [NoFile EXCEPT !.tokenLimit = Kept(b), !.maxRetries = Num(1)]
    /\ Constructed
    /\ ValidatedInput
    /\ IdleTasks

\* The command lines and configuration files tried on the constructor.
TypedArgs ==
    [model : {Undefined, Str("gpt-4")}, voice : {Undefined, Str("echo")},
     parallel : {Undefined, Str("2")}, speed : {Undefined, Str("2")}]

ConfigFiles ==
    [model : {Undefined, Str("tts-1")}, voice : {Undefined, Str("nova")},
     tokenLimit : {Undefined, Num(3), Str("0")},
     maxRetries : {Undefined, Num(-1), Num(0), Str("0"), Num(2)},
     parallel : {Undefined, Num(3)}, speed : {Undefined, Num(3)}]

\* Before main() has built the processor (OPENAI_API_KEY is set).
ConfigInit ==
    /\ cliArgs \in TypedArgs
    /\ fileConfig \in ConfigFiles
    /\ model = ""
    /\ voice = ""
    /\ speed = 0
    /\ tokenLimit = 0
    /\ parallelLimit = 0
    /\ maxRetries = 0
    /\ filePath = UserFile
    /\ fileKind = "file"
    /\ inputName = "doc"
    /\ validation = "none"
    /\ text = <<"a">>
    /\ phase = "boot"
    /\ NoTasks

RECURSIVE PathsUpTo(_)
PathsUpTo(n) ==
    IF n = 0 THEN {<<>>}
    ELSE LET shorter == PathsUpTo(n - 1)
         IN  shorter \cup {Append(s, c) : s \in {t \in shorter : Len(t) = n - 1},
                                          c \in PathAlphabet}

\* "file" is a readable regular file within config.maxFileSize, "large" a
\* readable regular file above it.
FileKinds == {"missing", "directory", "unreadable", "file", "large"}

\* processFile is called with any <file> argument of up to MaxPathLen
\* characters; default configuration.
ValidateInit ==
    /\ cliArgs = NoArgs
    /\ fileConfig = NoFile
    /\ Constructed
    /\ filePath \in PathsUpTo(MaxPathLen)
    /\ fileKind \in FileKinds
    /\ inputName = "doc"
    /\ validation = "none"
    /\ text = <<"a">>
    /\ phase = "validate"
    /\ NoTasks

-----------------------------------------------------------------------------
(* main(): new TTSProcessor(options), which builds the TTSConfig *)

Construct ==
    /\ phase = "boot"
    /\ LET c == TTSConfig(Options(cliArgs), fileConfig)
       IN  /\ model' = c.model
           /\ voice' = c.voice
           /\ speed' = c.speed
           /\ tokenLimit' = c.tokenLimit
           /\ parallelLimit' = c.parallelLimit
           /\ maxRetries' = c.maxRetries
    /\ phase' = "validate"
    /\ UNCHANGED <<cliArgs, fileConfig, inputVars, text, textParts, taskVars,
                   files, mergeVars, undeletable, reported>>

-----------------------------------------------------------------------------
(* TTSProcessor.processFile: the path validation and its process.exit(1) *)

ValidatePath ==
    /\ phase = "validate"
    /\ validation' = validatePath(filePath, fileKind)
    /\ phase' = IF Valid(validation') THEN "start" ELSE "invalid"
    /\ UNCHANGED <<cliArgs, fileConfig, model, voice, speed, tokenLimit,
                   parallelLimit, maxRetries, filePath, fileKind, inputName,
                   text,
                   textParts, taskVars, files, mergeVars, undeletable,
                   reported>>

-----------------------------------------------------------------------------
(* TTSProcessor.processFile up to the creation of the tasks *)

\* validateFileSize and readFile accept the file: it is within the size
\* limit and its content is not blank.
ContentAccepted == fileKind = "file" /\ Trim(text) # <<>>

\* pLimit(concurrency) returns the limiter function when concurrency is an
\* integer from 1 up; otherwise it returns a rejected promise, without
\* throwing.
LimiterIsFunction == parallelLimit >= 1

\* validateFileSize or readFile rejects the file: process.exit(1).
RejectContent ==
    /\ phase = "start"
    /\ ~ContentAccepted
    /\ phase' = "invalid"
    /\ UNCHANGED <<text, configVars, textParts, taskVars, files, mergeVars,
                   undeletable, reported>>

\* `limit` is a promise, not a function: the first limit(...) of
\* textParts.map, inside the try block, throws the TypeError "limit is not
\* a function" before any task exists.  The catch block of processFile
\* stops the bar, prints "Failed to generate audio", removes the parts of
\* the still empty outputParts and calls process.exit(1).
LimitCallThrows ==
    /\ phase = "start"
    /\ ContentAccepted
    /\ ~LimiterIsFunction
    /\ textParts' = splitByTokens(text, tokenLimit)
    /\ outputParts' = [i \in 1..Len(textParts') |-> NoPath]
    /\ reported' = [type |-> "TypeError"]
    /\ files' = removeFiles(files, {}, {})
    /\ phase' = "pipelineFailed"
    /\ UNCHANGED <<text, configVars, pc, calls, waits, lastError, active,
                   admitted, barCount, stored, writeLog, audio, mergeVars,
                   undeletable>>

ProcessStart ==
    /\ phase = "start"
    /\ ContentAccepted
    /\ LimiterIsFunction
    /\ textParts' = splitByTokens(text, tokenLimit)
    /\ LET n == Len(textParts')
       IN  /\ pc' = [i \in 1..n |-> "queued"]
           /\ calls' = [i \in 1..n |-> 0]
           /\ waits' = [i \in 1..n |-> <<>>]
           /\ lastError' = [i \in 1..n |-> 0]
           /\ outputParts' = [i \in 1..n |-> NoPath]
           /\ audio' = [i \in 1..n |-> 0]
    /\ phase' = "synth"
    /\ UNCHANGED <<text, configVars, active, admitted, barCount, stored,
                   files, mergeVars, undeletable, writeLog, reported>>

-----------------------------------------------------------------------------
(* The segment tasks *)

\* A continuation is queued: a task resumes after its awaits, p-limit runs
\* next() or its dequeue, or Promise.all settles.  No event is taken before
\* the queue is empty.
ContinuationPending ==
    /\ phase = "synth"
    /\ \/ \E i \in Segs : pc[i] \in {"synthesized", "written", "failed"}
       \/ \E i \in Segs : ReleaseReady(i)
       \/ Queued # {} /\ HasFreeSlot
       \/ \A i \in Segs : pc[i] = "done"

\* p-limit starts the task at the head of the queue.
Admit(i) ==
    /\ phase = "synth"
    /\ Queued # {}
    /\ i = QueueHead
    /\ HasFreeSlot
    /\ active' = active \cup {i}
    /\ admitted' = Append(admitted, i)
    /\ pc' = [pc EXCEPT ![i] = StartPc]
    /\ calls' = [calls EXCEPT ![i] = StartCalls]
    /\ UNCHANGED <<text, configVars, textParts, phase, waits, lastError,
                   outputParts, barCount, stored, files, mergeVars,
                   undeletable, writeLog, audio, reported>>

\* _createAudio resolves: synthesizeWithRetry returns the audio.
CallSucceeds(i) ==
    /\ phase = "synth"
    /\ ~ContinuationPending
    /\ pc[i] = "calling"
    /\ pc' = [pc EXCEPT ![i] = "synthesized"]
    /\ audio' = [audio EXCEPT ![i] = calls[i]]
    /\ UNCHANGED <<text, configVars, textParts, phase, calls, waits,
                   lastError, active, admitted, outputParts, barCount, stored,
                   files, mergeVars, undeletable, writeLog, reported>>

\* _createAudio rejects: the catch block of synthesizeWithRetry.
CallFails(i) ==
    /\ phase = "synth"
    /\ ~ContinuationPending
    /\ pc[i] = "calling"
    /\ lastError' = [lastError EXCEPT ![i] = RecordError(@, calls[i])]
    /\ \E kind \in ErrorKinds :
          IF Retryable(kind) /\ WillRetry(calls[i] - 1)
          THEN /\ pc' = [pc EXCEPT ![i] = "backoff"]
               /\ waits' = [waits EXCEPT ![i] = Append(@, BackoffDelay(calls[i] - 1))]
          ELSE /\ pc' = [pc EXCEPT ![i] = "failed"]
               /\ waits' = waits
    /\ UNCHANGED <<text, configVars, textParts, phase, calls, active,
                   admitted, outputParts, barCount, stored, files, mergeVars,
                   undeletable, writeLog, audio, reported>>

\* The setTimeout of the backoff fires: the next loop iteration calls again.
BackoffElapses(i) ==
    /\ phase = "synth"
    /\ ~ContinuationPending
    /\ pc[i] = "backoff"
    /\ pc' = [pc EXCEPT ![i] = "calling"]
    /\ calls' = [calls EXCEPT ![i] = @ + 1]
    /\ UNCHANGED <<text, configVars, textParts, phase, waits, lastError,
                   active, admitted, outputParts, barCount, stored, files,
                   mergeVars, undeletable, writeLog, audio, reported>>

\* createSegment resumes: fs.writeFileSync(partPath, audioContent) writes
\* the whole file.
WritePart(i) ==
    /\ phase = "synth"
    /\ pc[i] = "synthesized"
    /\ files' = files \cup {PartPath(i)}
    /\ writeLog' = Append(writeLog, [kind |-> "file", task |-> i,
                                     target |-> PartPath(i)])
    /\ pc' = [pc EXCEPT ![i] = "written"]
    /\ UNCHANGED <<text, configVars, textParts, phase, calls, waits,
                   lastError, active, admitted, outputParts, barCount, stored,
                   mergeVars, undeletable, audio, reported>>

\* fs.writeFileSync(partPath, audioContent) throws (the file may not grow,
\* the directory is not writable), before it has created the file or after
\* it has written a part of it.  The error leaves createSegment and the
\* task's catch block rethrows it as `Segment ${index + 1} failed: ...`:
\* the task is rejected without another call, its slot stays empty and the
\* bar is not incremented.
WritePartFails(i) ==
    /\ phase = "synth"
    /\ pc[i] = "synthesized"
    /\ \E created \in BOOLEAN :
          IF created
          THEN /\ files' = files \cup {PartPath(i)}
               /\ writeLog' = Append(writeLog, [kind |-> "file", task |-> i,
                                                target |-> PartPath(i)])
          ELSE UNCHANGED <<files, writeLog>>
    /\ pc' = [pc EXCEPT ![i] = "failed"]
    /\ UNCHANGED <<text, configVars, textParts, phase, calls, waits,
                   lastError, active, admitted, outputParts, barCount, stored,
                   mergeVars, undeletable, audio, reported>>

\* The task resumes after its await: outputParts[index] = partPath;
\* bar.increment().
StoreSlot(i) ==
    /\ phase = "synth"
    /\ pc[i] = "written"
    /\ outputParts' = [outputParts EXCEPT ![Slot(i, stored)] = PartPath(i)]
    /\ stored' = Append(stored, i)
    /\ writeLog' = Append(writeLog, [kind |-> "slot", task |-> i,
                                     target |-> Slot(i, stored)])
    /\ barCount' = BarIncrement(barCount)
    /\ pc' = [pc EXCEPT ![i] = "done"]
    /\ UNCHANGED <<text, configVars, textParts, phase, calls, waits,
                   lastError, active, admitted, files, mergeVars, undeletable,
                   audio, reported>>

\* p-limit's next() after the task settled: activeCount--, and the head of
\* the queue, if any, is started at once.
Release(i) ==
    /\ phase = "synth"
    /\ ReleaseReady(i)
    /\ IF Queued = {}
       THEN /\ active' = active \ {i}
            /\ UNCHANGED <<admitted, pc, calls>>
       ELSE /\ active' = (active \ {i}) \cup {QueueHead}
            /\ admitted' = Append(admitted, QueueHead)
            /\ pc' = [pc EXCEPT ![QueueHead] = StartPc]
            /\ calls' = [calls EXCEPT ![QueueHead] = StartCalls]
    /\ UNCHANGED <<text, configVars, textParts, phase, waits, lastError,
                   outputParts, barCount, stored, files, mergeVars,
                   undeletable, writeLog, audio, reported>>

-----------------------------------------------------------------------------
(* TTSProcessor.processFile after `await Promise.all(tasks)` *)

\* await Promise.all(tasks) resumes normally: every task has resolved.
PromiseAllSettledResolves == \A i \in Segs : pc[i] \in {"done", "failed"}
PromiseAllResolves == \A i \in Segs : pc[i] = "done"

\* outputParts.filter(p => p)
StoredParts == Range(outputParts) \ {NoPath}

\* The task of segment i was rejected although synthesizeWithRetry had
\* returned audio: the statement that threw is fs.writeFileSync.
WriteFailed(i) == pc[i] = "failed" /\ audio[i] >= 1

\* What a failed task rejects with.  The task's catch block builds
\* new Error(`Segment ${index + 1} failed: ${e.message}`) from the error e
\* thrown by createSegment: the error of writeFileSync (cause 0: no call's
\* error), or what synthesizeWithRetry threw, the error of the last call;
\* when that is null (no call was made), reading e.message throws a
\* TypeError, and that is what the task rejects with.
TaskError(i) ==
    IF WriteFailed(i)
    THEN [type |-> "Error", segment |-> i, from |-> "write", cause |-> 0]
    ELSE IF lastError[i] = 0
         THEN [type |-> "TypeError"]
         ELSE [type |-> "Error", segment |-> i, from |-> "call",
               cause |-> lastError[i]]

\* Promise.all rejects with the first rejection; the tasks that failed
\* within one turn did so in index order.
FirstFailed ==
    CHOOSE i \in Segs : pc[i] = "failed" /\ \A j \in Segs : pc[j] = "failed" => i <= j

\* Promise.all rejected: the catch block stops the bar, removes the parts
\* stored so far and calls process.exit(1).
PipelineFailWithoutCleanup ==
    /\ phase = "synth"
    /\ \E i \in Segs : pc[i] = "failed"
    /\ phase' = "pipelineFailed"
    /\ UNCHANGED <<text, configVars, textParts, taskVars, files, mergeVars,
                   undeletable, reported>>
PipelineFail ==
    /\ phase = "synth"
    /\ \E i \in Segs : pc[i] = "failed"
    /\ reported' = TaskError(FirstFailed)
    /\ \E stuck \in SUBSET (StoredParts \cap files) :
          /\ files' = removeFiles(files, StoredParts, stuck)
          /\ undeletable' = undeletable \cup stuck
    /\ phase' = "pipelineFailed"
    /\ UNCHANGED <<text, configVars, textParts, taskVars, mergeVars>>

\* Promise.all resolved: bar.stop(), then mergeFiles is called.
PipelineOkCleaningFirst ==
    /\ phase = "synth"
    /\ PromiseAllResolves
    /\ files' = files \ Range(outputParts)
    /\ phase' = "merge"
    /\ UNCHANGED <<text, configVars, textParts, taskVars, mergeVars,
                   undeletable, reported>>
PipelineOk ==
    /\ phase = "synth"
    /\ PromiseAllResolves
    /\ phase' = "merge"
    /\ UNCHANGED <<text, configVars, textParts, taskVars, files, mergeVars,
                   undeletable, reported>>

-----------------------------------------------------------------------------
(* AudioMerger.mergeFiles *)

\* A line of the list file without a character.
EmptyLine == <<>>

\* parts.map(p => `file '${p}'`).join('\n'): one line per array slot, in
\* array order.  map skips an empty slot of new Array(n) and join prints
\* it as the empty string, so that its line is empty.
ManifestLine(p) == IF p = NoPath THEN EmptyLine ELSE <<"file", p>>

ManifestOf(parts) == [k \in DOMAIN parts |-> ManifestLine(parts[k])]

\* fs.writeFileSync(listFile, fileContent) succeeds and ffmpeg is spawned.
MergeWriteManifest ==
    /\ phase = "merge"
    /\ manifest' = ManifestOf(outputParts)
    /\ files' = files \cup {ListFile}
    /\ toolRuns' = toolRuns + 1
    /\ phase' = "spawned"
    /\ UNCHANGED <<text, configVars, textParts, taskVars, mergeError,
                   undeletable, reported>>

\* fs.writeFileSync(listFile, fileContent) throws, before or after it has
\* created the file.
MergeWriteFails ==
    /\ phase = "merge"
    /\ \E created \in BOOLEAN :
          files' = IF created THEN files \cup {ListFile} ELSE files
    /\ mergeError' = "write"
    /\ phase' = "finally"
    /\ UNCHANGED <<text, configVars, textParts, taskVars, manifest, toolRuns,
                   undeletable, reported>>

\* 'close' with code 0: resolve().  The code does not look at outputPath:
\* the tool has written it, or has exited without writing it.
ToolExitsZero ==
    /\ phase = "spawned"
    /\ \E created \in BOOLEAN :
          files' = IF created THEN files \cup {MergedFile} ELSE files
    /\ phase' = "finally"
    /\ UNCHANGED <<text, configVars, textParts, taskVars, mergeVars,
                   undeletable, reported>>

\* 'close' with a non-zero code: reject(new Error(...)).  The tool may have
\* written a part of outputPath before it failed.
ToolExitsNonZero ==
    /\ phase = "spawned"
    /\ \E created \in BOOLEAN :
          files' = IF created THEN files \cup {MergedFile} ELSE files
    /\ mergeError' = "exit"
    /\ phase' = "finally"
    /\ UNCHANGED <<text, configVars, textParts, taskVars, manifest, toolRuns,
                   undeletable, reported>>

\* spawn('ffmpeg', args) leaves the child's stdout and stderr as pipes and
\* nothing reads them: a tool that writes more to stderr than the pipe
\* holds blocks in its write, before or after it has begun outputPath.  It
\* never exits, no 'close' arrives and the promise of mergeFiles stays
\* pending.
ToolBlocksOnPipe ==
    /\ phase = "spawned"
    /\ \E created \in BOOLEAN :
          files' = IF created THEN files \cup {MergedFile} ELSE files
    /\ phase' = "blocked"
    /\ UNCHANGED <<text, configVars, textParts, taskVars, mergeVars,
                   undeletable, reported>>

\* 'error': the process could not be spawned.
ToolSpawnErrorUnhandled ==
    /\ phase = "spawned"
    /\ mergeError' = "spawn"
    /\ phase' = "spawned without listener"
    /\ UNCHANGED <<text, configVars, textParts, taskVars, files, manifest,
                   toolRuns, undeletable, reported>>
ToolSpawnError ==
    /\ phase = "spawned"
    /\ mergeError' = "spawn"
    /\ phase' = "finally"
    /\ UNCHANGED <<text, configVars, textParts, taskVars, files, manifest,
                   toolRuns, undeletable, reported>>

\* The finally block: if (fs.existsSync(listFile)) fs.unlinkSync(listFile).
FinallyOnlyOnSuccess(fs, stuck) ==
    IF mergeError = "none" THEN fs \ ({ListFile} \ stuck) ELSE fs
Finally(fs, stuck) == removeFiles(fs, {ListFile}, stuck)

\* The finally block runs, then mergeFiles returns or throws "Merge error".
MergeFinally ==
    /\ phase = "finally"
    /\ \E stuck \in SUBSET ({ListFile} \cap files) :
          /\ files' = Finally(files, stuck)
          /\ undeletable' = undeletable \cup stuck
    /\ phase' = IF mergeError = "none" THEN "mergeReturned" ELSE "mergeThrew"
    /\ UNCHANGED <<text, configVars, textParts, taskVars, mergeVars,
                   reported>>

-----------------------------------------------------------------------------
(* TTSProcessor.processFile after mergeFiles *)

\* catch (e) { console.error(...); process.exit(1); }
MergeFailExit ==
    /\ phase = "mergeThrew"
    /\ phase' = "mergeFailed"
    /\ UNCHANGED <<text, configVars, textParts, taskVars, files, mergeVars,
                   undeletable, reported>>

\* FileCleanup.removeFiles(outputParts); console.log("Done!").
CleanupSuccess ==
    /\ phase = "mergeReturned"
    /\ \E stuck \in SUBSET (Range(outputParts) \cap files) :
          /\ files' = removeFiles(files, Range(outputParts), stuck)
          /\ undeletable' = undeletable \cup stuck
    /\ phase' = "done"
    /\ UNCHANGED <<text, configVars, textParts, taskVars, mergeVars,
                   reported>>

-----------------------------------------------------------------------------
(* Specifications *)

Next ==
    \/ ProcessStart
    \/ \E i \in Segs : Admit(i)
    \/ \E i \in Segs : CallSucceeds(i)
    \/ \E i \in Segs : CallFails(i)
    \/ \E i \in Segs : BackoffElapses(i)
    \/ \E i \in Segs : WritePart(i)
    \/ \E i \in Segs : WritePartFails(i)
    \/ \E i \in Segs : StoreSlot(i)
    \/ \E i \in Segs : Release(i)
    \/ PipelineFail
    \/ PipelineOk
    \/ MergeWriteManifest
    \/ MergeWriteFails
    \/ ToolExitsZero
    \/ ToolExitsNonZero
    \/ ToolBlocksOnPipe
    \/ ToolSpawnError
    \/ MergeFinally
    \/ MergeFailExit
    \/ CleanupSuccess

\* A run of the tool on a text of 1..MaxSegments segments.
Spec == Init /\ [][Next]_vars

\* splitByTokens on every validated content up to MaxLen characters.
SplitNext == ProcessStart

SplitSpec == SplitInit /\ [][SplitNext]_vars

\* A run of the tool on an input file of any name.
AnyNameSpec == AnyNameInit /\ [][Next]_vars

\* The constructor on every command line and configuration file above.
ConfigNext == Construct

ConfigSpec == ConfigInit /\ [][ConfigNext]_vars

\* validatePath on every <file> argument up to MaxPathLen characters.
ValidateNext == ValidatePath

ValidateSpec == ValidateInit /\ [][ValidateNext]_vars

\* A whole call of processFile: tts --parallel k <file>, with maxRetries r
\* in the configuration file, on a file inside or outside the home
\* directory, of any kind, blank or holding 1..MaxSegments segments.
RunInit ==
    /\ text \in PipelineTexts \cup {<<>>}
    /\ \E k \in 0..MaxParallel :
          cliArgs = [NoArgs EXCEPT !.parallel = Str(Numeral(k))]
    /\ \E r \in RunRetryValues :
          fileConfig = [NoFile EXCEPT !.tokenLimit = Num(2), !.maxRetries = Kept(r)]
    /\ Constructed
    /\ filePath \in {UserFile, <<"/", "x">>}
    /\ fileKind \in FileKinds
    /\ inputName = "doc"
    /\ validation = "none"
    /\ phase = "validate"
    /\ NoTasks

RunNext ==
    \/ ValidatePath
    \/ RejectContent
    \/ LimitCallThrows
    \/ Next

\* Every remote call settles, every backoff timer fires, the tool exits and
\* the event loop runs every continuation: a step that is possible is
\* eventually taken.
FairSpec == RunInit /\ [][RunNext]_vars /\ WF_vars(RunNext)

-----------------------------------------------------------------------------
(* Properties of splitByTokens (checked under SplitSpec) *)

\* The sentence units of the text that the loop does not skip.
Units == SelectSeq(SplitSentences(text), LAMBDA u : Trim(u) # <<>>)

RECURSIVE Concat(_)
Concat(ss) == IF ss = <<>> THEN <<>> ELSE Head(ss) \o Concat(Tail(ss))

\* The consecutive pieces of s cut after the positions in cuts.
RECURSIVE PiecesFrom(_, _, _)
PiecesFrom(s, start, cuts) ==
    IF cuts = {}
    THEN << SubSeq(s, start, Len(s)) >>
    ELSE LET c == CHOOSE x \in cuts : \A y \in cuts : x <= y
         IN  << SubSeq(s, start, c) >> \o PiecesFrom(s, c + 1, cuts \ {c})

\* segs is s cut into consecutive pieces, each trimmed at both ends: nothing
\* but whitespace at the pieces' boundaries is missing.
CutAndTrimmed(s, segs) ==
    IF segs = <<>>
    THEN Trim(s) = <<>>
    ELSE \E cuts \in SUBSET (1..(Len(s) - 1)) :
            /\ Cardinality(cuts) = Len(segs) - 1
            /\ LET pieces == PiecesFrom(s, 1, cuts)
               IN  \A k \in 1..Len(segs) : Trim(pieces[k]) = segs[k]

\* C8: every segment returned by splitByTokens has a token count within the
\* budget, or is exactly one sentence unit whose own token count (as it
\* stands in the text, or trimmed as it is returned) exceeds the budget.
C8_SegmentWithinBudgetOrSingleUnit ==
    phase = "synth" =>
        \A k \in 1..Len(textParts) :
            \/ Tokens(textParts[k]) <= tokenLimit
            \/ \E j \in 1..Len(Units) :
                  /\ textParts[k] = Trim(Units[j])
                  /\ \/ Tokens(Units[j]) > tokenLimit
                     \/ Tokens(Trim(Units[j])) > tokenLimit

\* C9 as claimed: the segments are the original text cut into consecutive
\* pieces and trimmed; nothing inside a segment is removed.
C9_ReconstructsOriginal ==
    phase = "synth" => CutAndTrimmed(text, textParts)

\* C9 as amended: the segments are the text without its whitespace-only
\* sentence units, cut into consecutive pieces and trimmed; every other unit
\* is kept whole, once, in order.
C9_ReconstructsNonBlankUnits ==
    phase = "synth" => CutAndTrimmed(Concat(Units), textParts)

\* C9 witness: a split into several segments of a text that has a
\* whitespace-only unit.
C9_Witness ==
    /\ phase = "synth"
    /\ Len(textParts) >= 2
    /\ Concat(Units) # text
    /\ \E j \in 1..Len(Units) : Trim(Units[j]) # Units[j]

\* C20: a sentence unit whose own token count exceeds the budget is a
\* segment by itself, whole (trimmed at its ends): the units before it make
\* up the segments before it and the units after it the segments after it,
\* wherever the unit stands in the text.
C20_OversizedUnitAlone ==
    phase = "synth" =>
        \A j \in 1..Len(Units) :
            Tokens(Units[j]) > tokenLimit =>
                \E k \in 1..Len(textParts) :
                    /\ textParts[k] = Trim(Units[j])
                    /\ CutAndTrimmed(Concat(SubSeq(Units, 1, j - 1)),
                                     SubSeq(textParts, 1, k - 1))
                    /\ CutAndTrimmed(Concat(SubSeq(Units, j + 1, Len(Units))),
                                     SubSeq(textParts, k + 1, Len(textParts)))

\* C20 witness: a text of at least three units in which an oversized unit
\* in the middle stands next to another oversized unit, and some unit is
\* within the budget.
C20_Witness ==
    /\ phase = "synth"
    /\ tokenLimit >= 1
    /\ \E j \in 2..(Len(Units) - 1) :
          /\ Tokens(Units[j]) > tokenLimit
          /\ Tokens(Units[j - 1]) > tokenLimit
    /\ \E m \in 1..Len(Units) : Tokens(Units[m]) <= tokenLimit
    /\ Len(textParts) = Len(Units)

\* C21: the split is greedy and emits no empty segment: the segments are
\* groups of consecutive units such that the buffer of each group followed
\* by the first unit of the next group exceeds the budget; every segment has
\* text that is not whitespace only; and a validated content yields at least
\* one segment.
C21_GreedyNoEmptySegments ==
    phase = "synth" =>
        /\ Len(textParts) >= 1
        /\ \A k \in 1..Len(textParts) : Trim(textParts[k]) # <<>>
        /\ \E cuts \in SUBSET (1..(Len(Units) - 1)) :
              /\ Cardinality(cuts) = Len(textParts) - 1
              /\ LET groups == PiecesFrom(Units, 1, cuts)
                 IN  /\ \A k \in 1..Len(textParts) :
                           Trim(Concat(groups[k])) = textParts[k]
                     /\ \A k \in 1..(Len(textParts) - 1) :
                           Tokens(Concat(groups[k]) \o groups[k + 1][1])
                               > tokenLimit

\* C21 witness: a split into at least two segments in which some segment
\* holds several units, the first segment fills the budget exactly, and the
\* text has a whitespace-only unit that was skipped.
C21_Witness ==
    /\ phase = "synth"
    /\ Len(textParts) >= 2
    /\ Len(Units) > Len(textParts)
    /\ Tokens(textParts[1]) = tokenLimit
    /\ Len(SplitSentences(text)) > Len(Units)

\* C11: splitting "A. B. C." with a budget of 2 tokens cuts after each ASCII
\* period and returns exactly the two segments "A. B." and "C.".
C11_AsciiPeriodsAreBoundaries ==
    (phase = "synth" /\ text = PeriodText /\ tokenLimit = 2) =>
        textParts = << <<"A", ".", " ", "B", ".">>, <<"C", ".">> >>

-----------------------------------------------------------------------------
(* Properties of the configuration (checked under ConfigSpec) *)

Given(v) == v.t # "undefined"

\* The value a setting has when the command line comes first, the
\* configuration file second and the default last.
ByPriority(typed, inFile, default) ==
    IF Given(typed) THEN typed ELSE IF Given(inFile) THEN inFile ELSE default

\* C12: each of model, voice, parallel, speed, tokenLimit and maxRetries has
\* the value typed on the command line if there is one, else the value of
\* tts-config.json if the file gives one, else the default.
C12_CliThenFileThenDefault ==
    phase = "validate" =>
        /\ model = ByPriority(cliArgs.model, fileConfig.model,
                              Str("gpt-4o-mini-tts")).s
        /\ voice = ByPriority(cliArgs.voice, fileConfig.voice, Str("alloy")).s
        /\ parallelLimit = ParseInt(ByPriority(cliArgs.parallel, fileConfig.parallel,
                                               Num(DefaultParallel)))
        /\ speed = ParseFloat(ByPriority(cliArgs.speed, fileConfig.speed,
                                         Num(DefaultSpeed)))
        /\ tokenLimit = ParseInt(ByPriority(Undefined, fileConfig.tokenLimit,
                                            Num(DefaultTokenLimit)))
        /\ maxRetries = ParseInt(ByPriority(Undefined, fileConfig.maxRetries,
                                            Num(DefaultMaxRetries)))

-----------------------------------------------------------------------------
(* Properties of the path validation (checked under ValidateSpec) *)

\* The location p is the directory dir or lies below it.
Inside(dir, p) == p = dir \/ StartsWith(p, dir \o <<"/">>)

\* C13: validatePath reports a path valid only if its resolved location is
\* inside the home directory; every path that resolves outside is rejected.
C13_ValidOnlyInsideHome ==
    Valid(validation) => Inside(HomeDir, Resolve(filePath))

-----------------------------------------------------------------------------
(* Properties of a whole run (checked under FairSpec) *)

\* The four ways a run ends: validation failure, pipeline failure, merge
\* failure, success.
Outcomes == {"invalid", "pipelineFailed", "mergeFailed", "done"}

\* The concatenation tool, once spawned, exits: it is never left blocked.
\* (That calls settle and timers fire is the fairness of FairSpec.)
ToolExits == [](phase # "blocked")

C25_InputFileUntouched ==
    /\ toolRuns > 0 => ListFile # InputPath
    /\ \A i \in Segs : PartPath(i) \in files => PartPath(i) # InputPath
    /\ MergedFile \in files => MergedFile # InputPath
    /\ InputPath \in files

-----------------------------------------------------------------------------
(* Properties of the pipeline and of the merge (checked under Spec) *)

PartFilesOnDisk == {i \in Segs : PartPath(i) \in files}

\* The synthesis of segment i has failed: synthesizeWithRetry threw, no
\* call having returned audio.
SynthesisFailed(i) == pc[i] = "failed" /\ audio[i] = 0

\* Tasks p-limit has started and that have not settled.
InFlight == {i \in Segs : pc[i] \in {"calling", "backoff", "synthesized", "written"}}

\* C1: whatever the order in which the synthesis calls complete, entry i of
\* the manifest handed to the concatenation tool is the part of segment i.
C1_ManifestInIndexOrder ==
    toolRuns > 0 =>
        /\ Len(manifest) = Len(textParts)
        /\ \A i \in Segs : manifest[i] = <<"file", PartPath(i)>>

\* C1 witness: a manifest was written after the segments completed in an
\* order other than index order.
C1_Witness ==
    /\ toolRuns > 0
    /\ \E a, b \in 1..Len(stored) : a < b /\ stored[a] > stored[b]

\* C2: with concurrency limit K >= 1, at most K segments are started and not
\* yet finished (in a call, in a backoff wait, or completing) in any state.
C2_AtMostKInFlight ==
    Cardinality(InFlight) <= parallelLimit

\* C2 witness: K >= 2 segments are in flight, one of them in a backoff wait,
\* while another segment is still queued.
C2_Witness ==
    /\ parallelLimit >= 2
    /\ Cardinality(InFlight) = parallelLimit
    /\ \E i \in Segs : pc[i] = "backoff"
    /\ Queued # {}

\* C3 as claimed: when a run ends because a segment exhausted its retries,
\* no part file of the run is left on disk.
C3_NoPartLeftAfterPipelineFailure ==
    (phase = "pipelineFailed" /\ \E i \in Segs : SynthesisFailed(i)) =>
        PartFilesOnDisk = {}

\* C3 as amended: when a run ends because a segment exhausted its retries,
\* the only part files left on disk are those whose deletion itself failed,
\* for every order of the task completions.
C3_NoPartLeftUnlessUnlinkFailed ==
    (phase = "pipelineFailed" /\ \E i \in Segs : SynthesisFailed(i)) =>
        \A i \in PartFilesOnDisk : PartPath(i) \in undeletable

\* C3 witness: a run failed after two segments had written their parts, and
\* both parts are gone.
C3_Witness ==
    /\ phase = "pipelineFailed"
    /\ \E i \in Segs : SynthesisFailed(i) /\ calls[i] >= 2
    /\ Len(stored) >= 2
    /\ undeletable = {}
    /\ PartFilesOnDisk = {}

\* C4: the concatenation tool is invoked only when every segment has
\* succeeded and its part file exists, with a manifest of one entry per
\* segment and no empty slot; a run in which a segment failed never invokes
\* the tool and never has a merged file.
C4_MergeOnlyAfterAllSucceeded ==
    /\ toolRuns > 0 =>
          /\ \A i \in Segs : pc[i] = "done"
          /\ Len(manifest) = Len(textParts)
          /\ \A i \in Segs : manifest[i] # EmptyLine
    /\ phase \in {"spawned", "blocked"} => PartFilesOnDisk = Segs
    /\ (\E i \in Segs : pc[i] = "failed") =>
          (toolRuns = 0 /\ MergedFile \notin files)

\* C4 witness: the tool is running on the parts of several segments, one of
\* which needed a retry.
C4_Witness ==
    /\ phase = "spawned"
    /\ Len(textParts) >= 2
    /\ \E i \in Segs : calls[i] >= 2

\* C5: once the concatenation tool has failed (non-zero exit or spawn error)
\* the run can only end in failure, with the part file of every segment
\* still on disk and no merged file.
C5_MergeFailureKeepsParts ==
    mergeError \in {"exit", "spawn"} =>
        /\ phase \in {"finally", "mergeThrew", "mergeFailed"}
        /\ PartFilesOnDisk = Segs
        /\ MergedFile \notin files

\* C6: when a run ends successfully and no deletion failed, the merged file
\* exists and no part file of the run is on disk.
C6_SuccessLeavesOnlyMerged ==
    (phase = "done" /\ undeletable = {}) =>
        /\ MergedFile \in files
        /\ PartFilesOnDisk = {}

\* C7: a segment whose calls all failed had exactly maxRetries calls,
\* waited retryDelay * k after the k-th failed call for
\* k = 1 .. maxRetries - 1 and not after the last, and the error raised is
\* the one of the last call.
C7_RetryExhaustion ==
    \A i \in Segs :
        SynthesisFailed(i) =>
            /\ calls[i] = maxRetries
            /\ waits[i] = [k \in 1..(maxRetries - 1) |-> RetryDelay * k]
            /\ lastError[i] >= 1
            /\ lastError[i] = calls[i]

\* C14: p-limit starts the segments in index order, and there is no batch
\* barrier: whenever the run waits for an event while segments are queued,
\* parallelLimit segments are in flight, so a slot freed by one segment was
\* given to the next queued one without waiting for the others in flight.
C14_AdmittedInOrderWithoutBarrier ==
    /\ admitted = [k \in 1..Len(admitted) |-> k]
    /\ (phase = "synth" /\ ~ContinuationPending /\ Queued # {}) =>
          Cardinality(InFlight) = parallelLimit

\* C14 witness: with a limit of at least two, a segment beyond the first
\* parallelLimit is in flight together with a segment of the first
\* parallelLimit that has not finished.
C14_Witness ==
    /\ phase = "synth"
    /\ ~ContinuationPending
    /\ parallelLimit >= 2
    /\ Len(admitted) > parallelLimit
    /\ admitted[Len(admitted)] \in InFlight
    /\ \E i \in InFlight : i <= parallelLimit

\* C15: every write of a part file or of an array slot is made by the
\* segment's own task, to the path and the slot derived from its index; the
\* part paths of different segments differ; no part file and no slot is
\* written twice.
C15_OwnSlotOwnFileOnce ==
    /\ \A i, j \in Segs : i # j => PartPath(i) # PartPath(j)
    /\ \A k \in 1..Len(writeLog) :
          LET e == writeLog[k]
          IN  /\ e.kind = "file" => e.target = PartPath(e.task)
              /\ e.kind = "slot" => e.target = e.task
    /\ \A a, b \in 1..Len(writeLog) :
          a < b => ~(/\ writeLog[a].kind = writeLog[b].kind
                     /\ writeLog[a].target = writeLog[b].target)

\* C15 witness: three segments have written their files and slots, not in
\* index order, one of them after a retry.
C15_Witness ==
    /\ Len(writeLog) = 6
    /\ \E a, b \in 1..Len(writeLog) : a < b /\ writeLog[a].task > writeLog[b].task
    /\ \E i \in Segs : pc[i] = "done" /\ calls[i] >= 2

\* C16: the part file of segment i is on disk only if a synthesis call for
\* segment i has returned its audio; a segment that is queued, in a call, in
\* a backoff wait, or whose calls all failed, has no part file; and a slot
\* holds a part path only if that part file has been written.
C16_PartFileOnlyAfterAudio ==
    \A i \in Segs :
        /\ PartPath(i) \in files =>
              (audio[i] >= 1 /\ pc[i] \in {"written", "done", "failed"})
        /\ (pc[i] \in {"queued", "calling", "backoff"} \/ SynthesisFailed(i)) =>
              PartPath(i) \notin files
        /\ outputParts[i] # NoPath =>
              \E k \in 1..Len(writeLog) :
                  writeLog[k] = [kind |-> "file", task |-> i,
                                 target |-> outputParts[i]]

\* C16 witness: one segment's part file is on disk, written from the audio
\* of a retried call, while another segment is in a backoff wait and a third
\* is in a retried call, both without part files.
C16_Witness ==
    /\ \E i \in Segs : PartPath(i) \in files /\ audio[i] >= 2
    /\ \E i \in Segs : pc[i] = "backoff" /\ PartPath(i) \notin files
    /\ \E i \in Segs : pc[i] = "calling" /\ calls[i] >= 2 /\ PartPath(i) \notin files

\* C17: when the k-th call for a segment is the first to succeed, k is at
\* most maxRetries, exactly k calls were made and none is made afterwards,
\* k - 1 waits of retryDelay * 1 .. retryDelay * (k - 1) were slept, and the
\* audio returned is that of call k; whatever the failures of its calls
\* were, the synthesis of a segment is given up only after maxRetries calls.
C17_FirstSuccessEndsRetries ==
    \A i \in Segs :
        /\ audio[i] >= 1 =>
              /\ audio[i] <= maxRetries
              /\ calls[i] = audio[i]
              /\ waits[i] = [k \in 1..(audio[i] - 1) |-> RetryDelay * k]
              /\ lastError[i] = audio[i] - 1
        /\ (SynthesisFailed(i) /\ maxRetries >= 1) => calls[i] = maxRetries

\* C17 witness: a segment's third call was the first to succeed and its
\* part has been stored, after other calls were made for other segments.
C17_Witness ==
    \E i \in Segs :
        /\ audio[i] = 3
        /\ pc[i] = "done"
        /\ Len(waits[i]) = 2
        /\ \E j \in Segs : j # i /\ calls[j] >= 1

\* C18: whenever a run fails in the synthesis stage, for every maxRetries
\* and every interleaving, the error reported names a segment that failed
\* after its calls were used up, together with the error of that segment's
\* last call.
C18_FailureNamesSegmentAndCause ==
    phase = "pipelineFailed" =>
        /\ reported.type = "Error"
        /\ SynthesisFailed(reported.segment)
        /\ calls[reported.segment] >= 1
        /\ reported.cause = lastError[reported.segment]
        /\ reported.cause = calls[reported.segment]

\* C19: bar.increment has been called once for each segment that has
\* succeeded and for no other; when the merge starts the number of calls is
\* the number of segments; and the parts array holds, whatever the progress
\* count, exactly the part paths of the segments that have succeeded, each in
\* its own slot.
C19_ProgressOncePerSuccess ==
    /\ barCount = Cardinality({i \in Segs : pc[i] = "done"})
    /\ Len(stored) = barCount
    /\ \A k \in 1..Len(stored) : pc[stored[k]] = "done"
    /\ \A a, b \in 1..Len(stored) : a < b => stored[a] # stored[b]
    /\ phase = "merge" => barCount = Len(textParts)
    /\ \A i \in Segs :
          outputParts[i] = IF pc[i] = "done" THEN PartPath(i) ELSE NoPath

\* C19 witness: the merge starts after three segments succeeded out of index
\* order, one of them after a failed call.
C19_Witness ==
    /\ phase = "merge"
    /\ barCount = 3
    /\ \E a, b \in 1..Len(stored) : a < b /\ stored[a] > stored[b]
    /\ \E i \in Segs : calls[i] >= 2

\* C22: a deletion that fails neither stops the cleanup nor changes the
\* outcome.  When the run has ended in success, the merge raised no error
\* and every part file still on disk is one whose own deletion failed; when it has ended in a pipeline failure, the error
\* reported is that of the failed segment and every stored part still on
\* disk is one whose own deletion failed; and mergeFiles returns normally
\* after a successful merge even if the manifest could not be deleted.
C22_DeletionFailureIsSwallowed ==
    /\ phase = "done" =>
          /\ mergeError = "none"
          /\ \A i \in PartFilesOnDisk : PartPath(i) \in undeletable
    /\ phase = "pipelineFailed" =>
          /\ reported = TaskError(FirstFailed)
          /\ \A p \in StoredParts \cap files : p \in undeletable
    /\ (phase = "mergeReturned" /\ ListFile \in files) =>
          (mergeError = "none" /\ ListFile \in undeletable)

\* C22 witness: a run has ended in success although the deletion of one
\* part failed, and another part, whose deletion was attempted as well, is
\* gone.
C22_Witness ==
    /\ phase = "done"
    /\ \E i \in Segs : PartPath(i) \in undeletable /\ PartPath(i) \in files
    /\ \E j \in Segs : PartPath(j) \notin files

\* C24: while the concatenation tool is running, every path listed in the
\* manifest exists on disk; and once the tool has been spawned a part file
\* is missing only after the tool has exited with code zero and the run has
\* gone through its final cleanup.
C24_PartsKeptWhileToolRuns ==
    /\ phase \in {"spawned", "blocked"} =>
          \A k \in 1..Len(manifest) :
              manifest[k] # EmptyLine => manifest[k][2] \in files
    /\ (toolRuns > 0 /\ PartFilesOnDisk # Segs) =>
          (phase = "done" /\ mergeError = "none")

\* C24 witness: the tool is running on a manifest of three parts, stored
\* out of index order, all on disk.
C24_Witness ==
    /\ phase = "spawned"
    /\ Len(manifest) = 3
    /\ \E a, b \in 1..Len(stored) : a < b /\ stored[a] > stored[b]
    /\ \A i \in Segs : PartPath(i) \in files

\* C26: for every maxRetries the configuration can produce, zero and
\* negative values included, a segment has failed only after at least one
\* call was made for it, and the error synthesizeWithRetry raised is that of
\* a failed call, never null.
C26_FailureHasACallAndAnError ==
    \A i \in Segs :
        /\ pc[i] = "failed" => calls[i] >= 1
        /\ SynthesisFailed(i) => lastError[i] # 0

\* C10: once mergeFiles has returned or thrown, the manifest file does not
\* exist, unless its unlink itself failed.
C10_ManifestRemoved ==
    (/\ phase \in {"mergeReturned", "mergeThrew", "mergeFailed", "done"}
     /\ ListFile \notin undeletable) => ListFile \notin files

\* C10 witness: mergeFiles has thrown after the tool could not be spawned,
\* and the manifest it had written is gone.
C10_Witness ==
    /\ phase = "mergeThrew"
    /\ mergeError = "spawn"
    /\ manifest # <<>>
    /\ ListFile \notin files

====
